---- MODULE Spec2Model ----
(***************************************************************************)
(* A model of vce2flashquiz.py: the image extractor, the text segmenter,   *)
(* the question parser, the exhibit assigner and the directory batch loop. *)
(* Text is a sequence of one-character strings, so that the regular        *)
(* expressions and the str methods of the source are computed character by *)
(* character.  An image data URI is one opaque element of such a sequence. *)
(***************************************************************************)
EXTENDS Integers, Sequences, FiniteSets, TLC

(***************************************************************************)
(* Python str and re primitives used by the source                         *)
(***************************************************************************)

UpperChars == {"A", "B", "C", "D", "E", "F", "G", "H", "I", "J", "K", "L", "M",
               "N", "O", "P", "Q", "R", "S", "T", "U", "V", "W", "X", "Y", "Z"}

DigitChars == {"0", "1", "2", "3", "4", "5", "6", "7", "8", "9"}

SpaceChars == {" ", "\n", "\t"}

\* str.lower() on one character
LowerChar(c) ==
  CASE c = "A" -> "a" [] c = "B" -> "b" [] c = "C" -> "c" [] c = "D" -> "d"
    [] c = "E" -> "e" [] c = "F" -> "f" [] c = "G" -> "g" [] c = "H" -> "h"
    [] c = "I" -> "i" [] c = "J" -> "j" [] c = "K" -> "k" [] c = "L" -> "l"
    [] c = "M" -> "m" [] c = "N" -> "n" [] c = "O" -> "o" [] c = "P" -> "p"
    [] c = "Q" -> "q" [] c = "R" -> "r" [] c = "S" -> "s" [] c = "T" -> "t"
    [] c = "U" -> "u" [] c = "V" -> "v" [] c = "W" -> "w" [] c = "X" -> "x"
    [] c = "Y" -> "y" [] c = "Z" -> "z" [] OTHER -> c

\* str.lower()
Lower(s) == [k \in 1..Len(s) |-> LowerChar(s[k])]

\* s[a:b] of Python with 0-based a, b (0 <= a, b)
Slice(s, a, b) ==
  LET hi == IF b > Len(s) THEN Len(s) ELSE b
  IN  IF a >= hi THEN <<>> ELSE SubSeq(s, a + 1, hi)

\* s.startswith(p, at) with 0-based at
StartsWithAt(s, p, at) ==
  /\ at + Len(p) <= Len(s)
  /\ s[at + 1] = p[1]
  /\ \A k \in 1..Len(p) : s[at + k] = p[k]

\* s.find(p, from) with 0-based positions, -1 when absent
RECURSIVE FindFrom(_, _, _)
FindFrom(s, p, from) ==
  IF from + Len(p) > Len(s) THEN -1
  ELSE IF StartsWithAt(s, p, from) THEN from
  ELSE FindFrom(s, p, from + 1)

\* p in s
Contains(s, p) == FindFrom(s, p, 0) >= 0

\* s.lstrip()
RECURSIVE LStrip(_)
LStrip(s) ==
  IF s # <<>> /\ Head(s) \in SpaceChars THEN LStrip(Tail(s)) ELSE s

\* s.rstrip()
RECURSIVE RStrip(_)
RStrip(s) ==
  IF s # <<>> /\ s[Len(s)] \in SpaceChars
  THEN RStrip(SubSeq(s, 1, Len(s) - 1)) ELSE s

\* s.strip()
Strip(s) == RStrip(LStrip(s))

\* s.split(sep) for a non-empty separator: the pieces of s from position from
\* on, at being the next place of sep
RECURSIVE SplitAt(_, _, _, _)
SplitAt(s, sep, from, at) ==
  IF at < 0 THEN <<Slice(s, from, Len(s))>>
  ELSE <<Slice(s, from, at)>>
         \o SplitAt(s, sep, at + Len(sep), FindFrom(s, sep, at + Len(sep)))

Split(s, sep) == SplitAt(s, sep, 0, FindFrom(s, sep, 0))

\* sep.join(parts)
RECURSIVE Join(_, _)
Join(sep, parts) ==
  IF parts = <<>> THEN <<>>
  ELSE IF Len(parts) = 1 THEN parts[1]
  ELSE parts[1] \o sep \o Join(sep, Tail(parts))

\* the end (0-based, exclusive) of the longest run of characters of cls from at
RECURSIVE RunEnd(_, _, _)
RunEnd(s, cls, at) ==
  IF at < Len(s) /\ s[at + 1] \in cls THEN RunEnd(s, cls, at + 1) ELSE at

(***************************************************************************)
(* Text constants of the source                                             *)
(***************************************************************************)

QuestionWord == <<"Q", "U", "E", "S", "T", "I", "O", "N">>

AnswerMarker == <<"C", "o", "r", "r", "e", "c", "t", " ",
                  "A", "n", "s", "w", "e", "r", ":">>

ExhibitWord == <<"e", "x", "h", "i", "b", "i", "t">>

ExhibitOpen == <<"!", "[", "E", "x", "h", "i", "b", "i", "t", "]", "(">>

DefaultTitle == <<"V", "C", "E", " ", "Q", "u", "i", "z">>

NL == <<"\n">>

\* f"\n\n![Exhibit]({b64})"
ExhibitRef(b64) == NL \o NL \o ExhibitOpen \o <<b64>> \o <<")">>

(***************************************************************************)
(* The regular expressions of parse_vce_pdf                                 *)
(***************************************************************************)

\* r'QUESTION\s+\d+' tried at 0-based position at: the match's end, or -1
MarkerEndAt(s, at) ==
  IF ~StartsWithAt(s, QuestionWord, at) THEN -1
  ELSE LET ws == RunEnd(s, SpaceChars, at + Len(QuestionWord))
           de == RunEnd(s, DigitChars, ws)
       IN  IF ws > at + Len(QuestionWord) /\ de > ws THEN de ELSE -1

\* the positions of s where r'QUESTION\s+\d+' matches
MarkerStarts(s) == {a \in 0..(Len(s) - 1) : MarkerEndAt(s, a) >= 0}

MinOf(S) == CHOOSE x \in S : \A y \in S : x <= y

\* the matches among the positions hits, from the first one on, each match
\* resuming the search at its end
RECURSIVE MarkersAmong(_, _)
MarkersAmong(s, hits) ==
  IF hits = {} THEN <<>>
  ELSE <<[start |-> MinOf(hits), end |-> MarkerEndAt(s, MinOf(hits))]>>
         \o MarkersAmong(s, {a \in hits : a >= MarkerEndAt(s, MinOf(hits))})

\* list(re.finditer(r'QUESTION\s+\d+', s)): the matches from position from on,
\* leftmost first and not overlapping, each as [start, end]
FindMarkersFrom(s, from) ==
  MarkersAmong(s, {a \in MarkerStarts(s) : a >= from})

\* re.sub(r'^QUESTION\s+\d+\s*', '', line)
StripMarkerPrefix(line) ==
  LET e == MarkerEndAt(line, 0)
  IN  IF e < 0 THEN line
      ELSE Slice(line, RunEnd(line, SpaceChars, e), Len(line))

\* re.match(r'^[A-Z]\.', line)
IsOptionLine(line) ==
  Len(line) >= 2 /\ line[1] \in UpperChars /\ line[2] = "."

\* "Correct Answer:" in line
HasAnswerMarker(line) == Contains(line, AnswerMarker)

\* line.split("Correct Answer:")[1].strip()
AnswerOf(line) == Strip(Split(line, AnswerMarker)[2])

IsUpperChar(c) == c \in UpperChars

\* [a.lower() for a in re.findall(r'[A-Z]', s)]
AnswerLetters(s) == Lower(SelectSeq(s, IsUpperChar))

\* group 2 of re.match(r'^([A-Z])\.\s*(.*)', opt): '.' stops at a line break
OptionRest(opt) ==
  LET from == RunEnd(opt, SpaceChars, 2)
      nl   == FindFrom(opt, NL, from)
  IN  Slice(opt, from, IF nl < 0 THEN Len(opt) ELSE nl)

(***************************************************************************)
(* State                                                                    *)
(***************************************************************************)

VARIABLES
  pc,                  \* the position of the running function
  page_texts,          \* page.extract_text() of each page of reader.pages
  all_images_list,     \* parse_vce_pdf: the result of extract_all_image_occurrences
  full_text,           \* parse_vce_pdf: the text buffer
  page_offsets,        \* parse_vce_pdf: (current_offset, i) of each page
  markers,             \* parse_vce_pdf: the matches of QUESTION\s+\d+
  quiz_title,          \* parse_vce_pdf
  questions,           \* parse_vce_pdf: the list returned
  last_image_idx_used, \* parse_vce_pdf: the high-water mark of consumed images
  span_idx,            \* parse_vce_pdf: i of the loop over markers
  spans,               \* the locals of each finished iteration of that loop
  pdf_pages,           \* extract_all_image_occurrences: reader.pages
  page_idx,            \* extract_all_image_occurrences: i of the loop over pages
  op_idx,              \* extract_all_image_occurrences: operations done on the page
  all_occurrences,     \* extract_all_image_occurrences: the list returned
  case_sensitive,      \* main: whether Path.glob tells the case of letters apart
  dir_files,           \* main: the files of the directory and what each one is
  pdf_files,           \* main: the files found
  file_idx,            \* main: the files of sorted(pdf_files) done
  md_files,            \* main: the .md files that exist in the directory
  processed,           \* main: the files handed to process_pdf, in order
  stderr,              \* what was printed on sys.stderr
  exit_code            \* main: the exit status, -1 while running

parseVars == <<page_texts, all_images_list, full_text, page_offsets, markers,
               quiz_title, questions, last_image_idx_used, span_idx, spans>>

imageVars == <<pdf_pages, page_idx, op_idx, all_occurrences>>

mainVars == <<case_sensitive, dir_files, pdf_files, file_idx, md_files,
              processed, exit_code>>

vars == <<pc, parseVars, imageVars, mainVars, stderr>>

\* the state of the functions that are not running
ImageIdle ==
  /\ pdf_pages = <<>>
  /\ page_idx = 0
  /\ op_idx = 0
  /\ all_occurrences = <<>>

MainIdle ==
  /\ case_sensitive = TRUE
  /\ dir_files = {}
  /\ pdf_files = <<>>
  /\ file_idx = 0
  /\ md_files = {}
  /\ processed = <<>>
  /\ exit_code = -1

ParseIdle ==
  /\ page_texts = <<>>
  /\ all_images_list = <<>>
  /\ full_text = <<>>
  /\ page_offsets = <<>>
  /\ markers = <<>>
  /\ quiz_title = <<>>
  /\ questions = <<>>
  /\ last_image_idx_used = -1
  /\ span_idx = 0
  /\ spans = <<>>

(***************************************************************************)
(* parse_vce_pdf: one iteration of the loop over markers, as functions      *)
(***************************************************************************)

\* PageOfFrom with > for >=
RECURSIVE PageOfFrom_Strict(_, _, _, _)
PageOfFrom_Strict(offsets, pos, k, page) ==
  IF k > Len(offsets) THEN page
  ELSE PageOfFrom_Strict(offsets, pos, k + 1,
                         IF pos > offsets[k].offset THEN offsets[k].page ELSE page)

\* lines 92-96: the page index left by the scan of page_offsets for position pos
RECURSIVE PageOfFrom(_, _, _, _)
PageOfFrom(offsets, pos, k, page) ==
  IF k > Len(offsets) THEN page
  ELSE PageOfFrom(offsets, pos, k + 1,
                  IF pos >= offsets[k].offset THEN offsets[k].page ELSE page)

PageOf(offsets, pos) == PageOfFrom(offsets, pos, 1, 0)

IsNonEmpty(line) == line # <<>>

\* line 98: [line.strip() for line in part.strip().split('\n') if line.strip()]
StrippedLines(part) ==
  LET raw == Split(Strip(part), NL)
  IN  SelectSeq([k \in 1..Len(raw) |-> Strip(raw[k])], IsNonEmpty)

\* lines 101-104: the marker is cut from the first line, an emptied line dropped
DropMarker(lines) ==
  LET first_line_clean == Strip(StripMarkerPrefix(lines[1]))
  IN  IF first_line_clean # <<>>
      THEN [lines EXCEPT ![1] = first_line_clean]
      ELSE Tail(lines)

ClassifyStart ==
  [question_text_lines |-> <<>>, options |-> <<>>,
   correct_answer_str |-> <<>>, parsing_options |-> FALSE]

\* ClassifyLine with the answer line leaving the options flag as it is
ClassifyLine_FlagKept(st, line) ==
  IF IsOptionLine(line)
  THEN [st EXCEPT !.parsing_options = TRUE, !.options = Append(@, line)]
  ELSE IF HasAnswerMarker(line)
  THEN [st EXCEPT !.correct_answer_str = AnswerOf(line)]
  ELSE IF ~st.parsing_options
  THEN [st EXCEPT !.question_text_lines = Append(@, line)]
  ELSE IF st.options # <<>>
  THEN [st EXCEPT !.options[Len(st.options)] = @ \o <<" ">> \o line]
  ELSE [st EXCEPT !.question_text_lines = Append(@, line)]

\* lines 112-122: the body of the loop over lines
ClassifyLine(st, line) ==
  IF IsOptionLine(line)
  THEN [st EXCEPT !.parsing_options = TRUE, !.options = Append(@, line)]
  ELSE IF HasAnswerMarker(line)
  THEN [st EXCEPT !.correct_answer_str = AnswerOf(line),
                  !.parsing_options = FALSE]
  ELSE IF ~st.parsing_options
  THEN [st EXCEPT !.question_text_lines = Append(@, line)]
  ELSE IF st.options # <<>>
  THEN [st EXCEPT !.options[Len(st.options)] = @ \o <<" ">> \o line]
  ELSE [st EXCEPT !.question_text_lines = Append(@, line)]

\* lines 106-122
RECURSIVE ClassifyFrom(_, _, _)
ClassifyFrom(lines, k, st) ==
  IF k > Len(lines) THEN st
  ELSE ClassifyFrom(lines, k + 1, ClassifyLine(st, lines[k]))

ClassifyLines(lines) == ClassifyFrom(lines, 1, ClassifyStart)

\* lines 129-132: the 0-based indices of the occurrences on pages sp..ep, in order
ImagesInSpan(images, sp, ep) ==
  LET InSpan(idx) == sp <= images[idx + 1].page /\ images[idx + 1].page <= ep
  IN  SelectSeq([k \in 1..Len(images) |-> k - 1], InSpan)

\* WalkStep without the advance of the high-water mark
WalkStep_NoAdvance(w, images, idx) ==
  IF idx > w.last
  THEN LET b64 == images[idx + 1].b64
       IN  IF b64 \notin w.seen_b64
           THEN [assigned_images |-> Append(w.assigned_images, b64),
                 consumed |-> Append(w.consumed, idx),
                 seen_b64 |-> w.seen_b64 \cup {b64}, last |-> w.last]
           ELSE w
  ELSE w

\* lines 137-142: the body of the walk over the in-span indices
WalkStep(w, images, idx) ==
  IF idx > w.last
  THEN LET b64 == images[idx + 1].b64
       IN  IF b64 \notin w.seen_b64
           THEN [assigned_images |-> Append(w.assigned_images, b64),
                 consumed |-> Append(w.consumed, idx),
                 seen_b64 |-> w.seen_b64 \cup {b64}, last |-> idx]
           ELSE [w EXCEPT !.last = idx]
  ELSE w

\* lines 134-142
RECURSIVE WalkFrom(_, _, _, _)
WalkFrom(in_span, images, k, w) ==
  IF k > Len(in_span) THEN w
  ELSE WalkFrom(in_span, images, k + 1, WalkStep(w, images, in_span[k]))

Walk(in_span, images, last) ==
  WalkFrom(in_span, images, 1,
           [assigned_images |-> <<>>, consumed |-> <<>>,
            seen_b64 |-> {}, last |-> last])

\* line 144: the condition of the fallback
TakesFallback(assigned_images, in_span) ==
  assigned_images = <<>> /\ in_span # <<>>

\* WithFallback without the fallback
WithFallback_Never(assigned_images, in_span, images) == assigned_images

\* WithFallback taking the first in-span image
WithFallback_First(assigned_images, in_span, images) ==
  IF TakesFallback(assigned_images, in_span)
  THEN <<images[in_span[1] + 1].b64>>
  ELSE assigned_images

\* lines 144-148
WithFallback(assigned_images, in_span, images) ==
  IF TakesFallback(assigned_images, in_span)
  THEN <<images[in_span[Len(in_span)] + 1].b64>>
  ELSE assigned_images

\* lines 150-151
RECURSIVE AppendRefs(_, _)
AppendRefs(q_text, assigned_images) ==
  IF assigned_images = <<>> THEN q_text
  ELSE AppendRefs(q_text \o ExhibitRef(Head(assigned_images)),
                  Tail(assigned_images))

\* line 128
MentionsExhibit(q_text) == Contains(Lower(q_text), ExhibitWord)

TrueWord == <<"t", "r", "u", "e">>

FalseWord == <<"f", "a", "l", "s", "e">>

\* lines 159-163: every option here starts with [A-Z]\. , so every one matches
OptTexts(options) ==
  [k \in 1..Len(options) |-> Lower(Strip(OptionRest(options[k])))]

InSeq(x, s) == \E k \in 1..Len(s) : s[k] = x

\* IsTf without the test of the number of options
IsTf_AnyCount(options) ==
  /\ InSeq(TrueWord, OptTexts(options))
  /\ InSeq(FalseWord, OptTexts(options))

\* lines 156-165
IsTf(options) ==
  /\ Len(options) = 2
  /\ InSeq(TrueWord, OptTexts(options))
  /\ InSeq(FalseWord, OptTexts(options))

\* lines 167-173
FormattedOptions(options) ==
  [k \in 1..Len(options) |->
     <<LowerChar(options[k][1])>> \o <<")", " ">> \o Strip(OptionRest(options[k]))]

\* lines 177-178
TfAnswer(answers) ==
  LET ans_letter == IF answers # <<>> THEN answers[1] ELSE "a"
  IN  IF ans_letter = "a" THEN TrueWord ELSE FalseWord

\* lines 180-181
ChoiceType(answers) == IF Len(answers) = 1 THEN "@mc" ELSE "@sata"

ChoiceAnswer(answers) ==
  Join(<<",", " ">>, [k \in 1..Len(answers) |-> <<answers[k]>>])

\* lines 153-188: the question appended for a kept span
MakeQuestion(q_text, options, correct_answer_str) ==
  LET answers == AnswerLetters(correct_answer_str)
      is_tf   == IsTf(options)
  IN  [type    |-> IF is_tf THEN "@tf" ELSE ChoiceType(answers),
       text    |-> q_text,
       options |-> IF is_tf THEN <<>> ELSE FormattedOptions(options),
       answer  |-> IF is_tf THEN TfAnswer(answers) ELSE ChoiceAnswer(answers)]

(***************************************************************************)
(* parse_vce_pdf: the actions                                               *)
(***************************************************************************)

\* lines 67-72: one page's text joins the buffer (current_offset is the
\* buffer's length, the sum of the lengths added so far)
ExtractPageText ==
  /\ pc = "text"
  /\ Len(page_offsets) < Len(page_texts)
  /\ LET i    == Len(page_offsets)
         text == page_texts[i + 1] \o NL
     IN  /\ page_offsets' = Append(page_offsets,
                                    [offset |-> Len(full_text), page |-> i])
         /\ full_text' = full_text \o text
  /\ UNCHANGED <<pc, page_texts, all_images_list, markers, quiz_title,
                 questions, last_image_idx_used, span_idx, spans>>
  /\ UNCHANGED <<imageVars, mainVars, stderr>>

\* lines 79-83
TitleOf(text, found) ==
  IF found = <<>> THEN DefaultTitle
  ELSE LET header == Strip(Slice(text, 0, found[1].start))
       IN  IF header = <<>> THEN DefaultTitle
           ELSE Strip(Split(header, NL)[1])

\* lines 74-85
FindMarkers ==
  /\ pc = "text"
  /\ Len(page_offsets) = Len(page_texts)
  /\ markers' = FindMarkersFrom(full_text, 0)
  /\ quiz_title' = TitleOf(full_text, markers')
  /\ questions' = <<>>
  /\ last_image_idx_used' = -1
  /\ span_idx' = 0
  /\ pc' = "loop"
  /\ UNCHANGED <<page_texts, all_images_list, full_text, page_offsets, spans>>
  /\ UNCHANGED <<imageVars, mainVars, stderr>>

\* lines 126-151 of a kept span: the exhibit assigner, from the walk's result w
SpanImages(loc, images, w) ==
  [loc EXCEPT
     !.consumed = w.consumed,
     !.fallback = TakesFallback(w.assigned_images, loc.in_span),
     !.assigned_images = WithFallback(w.assigned_images, loc.in_span, images),
     !.q_text = AppendRefs(loc.body,
                  WithFallback(w.assigned_images, loc.in_span, images)),
     !.last_after = w.last]

\* lines 126-151 of a kept span whose body has the in-span list in_span
SpanWalk(loc, images, in_span) ==
  SpanImages([loc EXCEPT !.in_span = in_span], images,
             Walk(in_span, images, loc.last_before))

\* line 124: the span is kept
IsKept_BodyOnly(st) == st.question_text_lines # <<>>

IsKept(st) == st.question_text_lines # <<>> /\ st.correct_answer_str # <<>>

\* lines 124-151, from the classified lines st and the joined body
SpanBody(loc, images, st, body) ==
  LET kept == IsKept(st)
      base == [loc EXCEPT !.question_text_lines = st.question_text_lines,
                          !.options = st.options,
                          !.correct_answer_str = st.correct_answer_str,
                          !.kept = kept, !.body = body, !.q_text = body]
  IN  IF kept /\ MentionsExhibit(body)
      THEN SpanWalk([base EXCEPT !.exhibit = TRUE], images,
                    ImagesInSpan(images, loc.q_start_page, loc.q_end_page))
      ELSE base

SpanClassified(loc, images, st) ==
  SpanBody(loc, images, st, Join(<<" ">>, st.question_text_lines))

\* lines 99-151, from the stripped non-empty lines of the span
SpanLines(loc, images, all_lines) ==
  IF all_lines = <<>> THEN loc
  ELSE SpanClassified([loc EXCEPT !.lines = DropMarker(all_lines)], images,
                      ClassifyLines(DropMarker(all_lines)))

\* lines 88-151: the locals of iteration i of the loop over markers
SpanLocals(i, text, offsets, found, images, last) ==
  LET q_start == found[i + 1].start
      q_end   == IF i + 1 < Len(found) THEN found[i + 2].start ELSE Len(text)
  IN  SpanLines([q_start |-> q_start, q_end |-> q_end,
                 q_start_page |-> PageOf(offsets, q_start),
                 q_end_page |-> PageOf(offsets, q_end),
                 lines |-> <<>>, question_text_lines |-> <<>>,
                 options |-> <<>>, correct_answer_str |-> <<>>,
                 kept |-> FALSE, body |-> <<>>, exhibit |-> FALSE,
                 in_span |-> <<>>, consumed |-> <<>>, fallback |-> FALSE,
                 assigned_images |-> <<>>, q_text |-> <<>>,
                 last_before |-> last, last_after |-> last],
                images, StrippedLines(Slice(text, q_start, q_end)))

\* lines 87-188: one iteration of the loop over markers
ProcessSpan ==
  /\ pc = "loop"
  /\ span_idx < Len(markers)
  /\ \E loc \in {SpanLocals(span_idx, full_text, page_offsets, markers,
                             all_images_list, last_image_idx_used)} :
       /\ questions' =
            IF loc.kept
            THEN Append(questions,
                        MakeQuestion(loc.q_text, loc.options,
                                     loc.correct_answer_str))
            ELSE questions
       /\ last_image_idx_used' = loc.last_after
       /\ spans' = Append(spans, loc)
  /\ span_idx' = span_idx + 1
  /\ UNCHANGED <<pc, page_texts, all_images_list, full_text, page_offsets,
                 markers, quiz_title>>
  /\ UNCHANGED <<imageVars, mainVars, stderr>>

\* line 190
ReturnQuestions ==
  /\ pc = "loop"
  /\ span_idx = Len(markers)
  /\ pc' = "done"
  /\ UNCHANGED <<parseVars, imageVars, mainVars, stderr>>

NextParse == ExtractPageText \/ FindMarkers \/ ProcessSpan \/ ReturnQuestions

\* parse_vce_pdf is entered on the document doc: its pages' texts and its
\* image occurrences
InitParse(docs) ==
  /\ pc = "text"
  /\ \E doc \in docs :
       /\ page_texts = doc.texts
       /\ all_images_list = doc.images
  /\ full_text = <<>>
  /\ page_offsets = <<>>
  /\ markers = <<>>
  /\ quiz_title = DefaultTitle
  /\ questions = <<>>
  /\ last_image_idx_used = -1
  /\ span_idx = 0
  /\ spans = <<>>
  /\ ImageIdle
  /\ MainIdle
  /\ stderr = <<>>

(***************************************************************************)
(* Documents                                                                *)
(***************************************************************************)

\* the sequences over S of length 0..n
SeqsUpTo(S, n) == UNION {[1..k -> S] : k \in 0..n}

MarkerLine == QuestionWord \o <<" ", "1">>

MarkerBodyLine == QuestionWord \o <<" ", "2", " ", "w">>

PlainLine == <<"x">>

OtherPlainLine == <<"z">>

OptionLine == <<"A", ".", " ", "y">>

\* starts like an option and holds the answer marker
OptionAnswerLine == <<"B", ".", " ">> \o AnswerMarker \o <<" ", "C">>

AnswerLine == AnswerMarker \o <<" ", "A">>

TwoAnswerLine == AnswerMarker \o <<" ", "B", ",", " ", "D">>

EmptyAnswerLine == AnswerMarker \o <<" ">>

MaxDocLines == 5

KeepLineSet ==
  {MarkerLine, MarkerBodyLine, PlainLine, OptionLine, AnswerLine, EmptyAnswerLine}

\* one page holding up to n lines of KeepLineSet, no image
KeepDocs(n) ==
  {[texts |-> <<Join(NL, ls)>>, images |-> <<>>] :
     ls \in SeqsUpTo(KeepLineSet, n)}

InitKeep == InitParse(KeepDocs(MaxDocLines))

SpecKeep == InitKeep /\ [][NextParse]_vars

MaxSpanLines == 4

ClassifyLineSet ==
  {PlainLine, OtherPlainLine, OptionLine, OptionAnswerLine, AnswerLine,
   TwoAnswerLine}

\* one page holding one span: a marker line, then up to n lines of
\* ClassifyLineSet
ClassifyDocs(n) ==
  {[texts |-> <<Join(NL, <<first>> \o ls)>>, images |-> <<>>] :
     first \in {MarkerLine, MarkerBodyLine},
     ls \in SeqsUpTo(ClassifyLineSet, n)}

InitClassify == InitParse(ClassifyDocs(MaxSpanLines))

SpecClassify == InitClassify /\ [][NextParse]_vars

MaxOptions == 3

TrueOption == <<"A", ".", " ", "T", "r", "u", "e">>

FalseOption == <<"B", ".", " ", "F", "a", "l", "s", "e">>

FalseFirstOption == <<"A", ".", " ", "F", "a", "l", "s", "e">>

TrueSecondOption == <<"B", ".", " ", "T", "r", "u", "e">>

UpperTrueOption == <<"C", ".", " ", " ", "T", "R", "U", "E">>

TightFalseOption == <<"D", ".", "f", "a", "l", "s", "e">>

TypingOptionSet ==
  {TrueOption, FalseOption, FalseFirstOption, TrueSecondOption,
   UpperTrueOption, TightFalseOption, OptionLine}

TypingAnswerSet ==
  {AnswerLine, TwoAnswerLine,
   AnswerMarker \o <<" ", "B">>,
   AnswerMarker \o <<" ", "C">>,
   AnswerMarker \o <<" ", "7">>}

\* one page holding one span: the marker and a body, up to n option lines,
\* possibly a continuation line, and an answer line
TypingDocs(n) ==
  {[texts |-> <<Join(NL, <<MarkerBodyLine>> \o os \o more \o <<ans>>)>>,
    images |-> <<>>] :
     os \in SeqsUpTo(TypingOptionSet, n),
     more \in {<<>>, <<PlainLine>>},
     ans \in TypingAnswerSet}

InitTyping == InitParse(TypingDocs(MaxOptions))

SpecTyping == InitTyping /\ [][NextParse]_vars

MaxPages == 3

\* a whole question
QuestionPage == Join(NL, <<MarkerLine, PlainLine, AnswerLine>>)

\* an answer line, then a marker at the end of the page
AnswerMarkerPage == Join(NL, <<AnswerLine, MarkerLine>>)

\* the word QUESTION at the end of a page
SplitMarkerPage == <<"w", " ">> \o QuestionWord

\* a page starting with a number
NumberPage == <<"3", " ", "w">>

PageTextSet ==
  {<<>>, PlainLine, QuestionPage, MarkerBodyLine, AnswerMarkerPage,
   SplitMarkerPage, NumberPage}

\* one to n pages, each any text of PageTextSet, no image
PagesDocs(n) ==
  {[texts |-> ts, images |-> <<>>] :
     ts \in SeqsUpTo(PageTextSet, n) \ {<<>>}}

InitPages == InitParse(PagesDocs(MaxPages))

SpecPages == InitPages /\ [][NextParse]_vars

MaxExhibitPages == 2

MaxImages == 2

ExhibitLine == <<"E", "x", "h", "i", "b", "i", "t">>

UpperExhibitLine == <<"E", "X", "H", "I", "B", "I", "T">>

\* a question that mentions an exhibit
ExhibitQuestionPage == Join(NL, <<MarkerLine, ExhibitLine, AnswerLine>>)

\* two questions that mention an exhibit
TwoExhibitPage ==
  Join(NL, <<MarkerLine, ExhibitLine, AnswerLine,
             MarkerLine, UpperExhibitLine, AnswerLine>>)

ExhibitPageSet ==
  {PlainLine, QuestionPage, ExhibitQuestionPage, TwoExhibitPage}

B64Set == {"data:image/png;base64,AA", "data:image/jpg;base64,BB"}

\* the lists extract_all_image_occurrences can return for n pages, up to m
\* long: the occurrences are appended page after page
ImageLists(n, m) ==
  {l \in SeqsUpTo([page : 0..(n - 1), b64 : B64Set], m) :
     \A j \in 1..(Len(l) - 1) : l[j].page <= l[j + 1].page}

\* one to n pages of ExhibitPageSet and up to m images on them
ExhibitDocs(n, m) ==
  UNION {{[texts |-> ts, images |-> l] : l \in ImageLists(Len(ts), m)} :
           ts \in SeqsUpTo(ExhibitPageSet, n) \ {<<>>}}

InitExhibit == InitParse(ExhibitDocs(MaxExhibitPages, MaxImages))

SpecExhibit == InitExhibit /\ [][NextParse]_vars

(***************************************************************************)
(* C7: the spans kept                                                       *)
(***************************************************************************)

HasBodyAndAnswer(loc) ==
  loc.question_text_lines # <<>> /\ loc.correct_answer_str # <<>>

TextsOf(qs) == [k \in 1..Len(qs) |-> qs[k].text]

QTextsOf(locs) == [k \in 1..Len(locs) |-> locs[k].q_text]

\* C7: when parse_vce_pdf returns, every marker has had its iteration, the
\* questions returned are, in marker order, one question for each span that
\* has a body line and a non-empty answer string and none for any other span,
\* and a document without a marker gives no question and the default title.
C7_KeptSubsequence ==
  pc = "done" =>
    /\ Len(spans) = Len(markers)
    /\ TextsOf(questions) = QTextsOf(SelectSeq(spans, HasBodyAndAnswer))
    /\ markers = <<>> => questions = <<>> /\ quiz_title = DefaultTitle

\* a span with a body line and an empty answer is dropped, the next one kept
C7_Witness ==
  /\ pc = "done"
  /\ Len(spans) = 2
  /\ spans[1].correct_answer_str = <<>>
  /\ spans[1].question_text_lines # <<>>
  /\ HasBodyAndAnswer(spans[2])
  /\ Len(questions) = 1

(***************************************************************************)
(* C8: the line classifier                                                  *)
(***************************************************************************)

LineKind(line) ==
  IF IsOptionLine(line) THEN "option"
  ELSE IF HasAnswerMarker(line) THEN "answer"
  ELSE "plain"

\* the index of the latest option or answer line before line k, 0 without one
RECURSIVE LatestMark(_, _)
LatestMark(lines, k) ==
  IF k <= 1 THEN 0
  ELSE IF LineKind(lines[k - 1]) # "plain" THEN k - 1
  ELSE LatestMark(lines, k - 1)

OptionPrecedes(lines, k) == \E j \in 1..(k - 1) : LineKind(lines[j]) = "option"

\* the sub-sequence of lines at the indices of ks, in order
LinesAt(lines, ks) == [n \in 1..Len(ks) |-> lines[ks[n]]]

IndicesOf(lines) == [k \in 1..Len(lines) |-> k]

ExpectedBody(lines) ==
  LET ToBody(k) ==
        /\ LineKind(lines[k]) = "plain"
        /\ \/ ~OptionPrecedes(lines, k)
           \/ /\ LatestMark(lines, k) > 0
              /\ LineKind(lines[LatestMark(lines, k)]) = "answer"
  IN  LinesAt(lines, SelectSeq(IndicesOf(lines), ToBody))

\* the option started at line j: that line and the plain lines that follow it
\* before the next option or answer line, joined by spaces
ExpectedOption(lines, j) ==
  LET Continues(k) == k = j \/ (LineKind(lines[k]) = "plain" /\ LatestMark(lines, k) = j)
  IN  Join(<<" ">>, LinesAt(lines, SelectSeq(IndicesOf(lines), Continues)))

ExpectedOptions(lines) ==
  LET Starts(k) == LineKind(lines[k]) = "option"
      js == SelectSeq(IndicesOf(lines), Starts)
  IN  [n \in 1..Len(js) |-> ExpectedOption(lines, js[n])]

ExpectedAnswer(lines) ==
  LET Answers == {k \in 1..Len(lines) : LineKind(lines[k]) = "answer"}
  IN  IF Answers = {} THEN <<>>
      ELSE AnswerOf(lines[CHOOSE k \in Answers : \A m \in Answers : m <= k])

\* C8: of the lines of a span, taken in order (a line starting with an
\* uppercase letter and a period is an option line, another line holding
\* "Correct Answer:" is an answer line, any other line is plain): the body is
\* the plain lines that no option line precedes or whose latest preceding
\* option or answer line is an answer line; every option line starts an option
\* to which the plain lines that follow it are space-joined; the raw answer is
\* the trimmed text after the marker of the last answer line.
C8_LineClassifier ==
  \A n \in 1..Len(spans) :
    /\ spans[n].question_text_lines = ExpectedBody(spans[n].lines)
    /\ spans[n].options = ExpectedOptions(spans[n].lines)
    /\ spans[n].correct_answer_str = ExpectedAnswer(spans[n].lines)

\* a plain line after an option and an answer line has joined the body, and a
\* plain line after an option line has joined that option
C8_Witness ==
  \E n \in 1..Len(spans) :
    /\ Len(spans[n].lines) = 4
    /\ LineKind(spans[n].lines[1]) = "option"
    /\ LineKind(spans[n].lines[2]) = "plain"
    /\ LineKind(spans[n].lines[3]) = "answer"
    /\ LineKind(spans[n].lines[4]) = "plain"
    /\ spans[n].question_text_lines = <<spans[n].lines[4]>>
    /\ Len(spans[n].options) = 1
    /\ Len(spans[n].options[1]) > Len(spans[n].lines[1])

(***************************************************************************)
(* C6, C10: the type and the answer of a kept question                      *)
(***************************************************************************)

\* the question appended for span n, a kept span
QuestionOf(n) ==
  questions[Len(SelectSeq(SubSeq(spans, 1, n), HasBodyAndAnswer))]

\* an option without its letter and period, trimmed and lowercased
PrefixStripped(opt) == Lower(Strip(SubSeq(opt, 3, Len(opt))))

IsTrueFalsePair(options) ==
  /\ Len(options) = 2
  /\ {PrefixStripped(options[1]), PrefixStripped(options[2])}
       = {TrueWord, FalseWord}

UpperCount(s) == Cardinality({k \in 1..Len(s) : s[k] \in UpperChars})

\* the uppercase letters of s, lowercased, with ", " between them
RECURSIVE LettersJoined(_, _)
LettersJoined(s, first) ==
  IF s = <<>> THEN <<>>
  ELSE IF Head(s) \in UpperChars
  THEN (IF first THEN <<>> ELSE <<",", " ">>)
         \o <<LowerChar(Head(s))>> \o LettersJoined(Tail(s), FALSE)
  ELSE LettersJoined(Tail(s), first)

C6_TypeOf(loc, q) ==
  IF IsTrueFalsePair(loc.options)
  THEN q.type = "@tf" /\ q.options = <<>>
  ELSE /\ q.type = (IF UpperCount(loc.correct_answer_str) = 1
                    THEN "@mc" ELSE "@sata")
       /\ q.answer = LettersJoined(loc.correct_answer_str, TRUE)
       /\ Len(q.options) = Len(loc.options)
       /\ loc.correct_answer_str = <<"B", ",", " ", "D">>
            => q.type = "@sata" /\ q.answer = <<"b", ",", " ", "d">>

\* C6: a kept question is tagged @tf, with no option, exactly when it has
\* exactly two options whose texts without the letter prefix, lowercased, are
\* "true" and "false" in either order; any other kept question is tagged @mc
\* when its raw answer holds exactly one uppercase letter and @sata if not,
\* keeps its options, and has for answer the lowercased letters of the raw
\* answer joined by ", " ("B, D" gives @sata and "b, d").
C6_TypeAndAnswer ==
  \A n \in 1..Len(spans) :
    HasBodyAndAnswer(spans[n]) => C6_TypeOf(spans[n], QuestionOf(n))

\* a true/false pair was tagged @tf, and three options holding both words,
\* answered "B, D", were tagged @sata
C6_Witness ==
  /\ pc = "done"
  /\ Len(questions) = 1
  /\ \/ /\ questions[1].type = "@tf"
        /\ spans[1].options = <<FalseFirstOption, TrueSecondOption>>
     \/ /\ questions[1].type = "@sata"
        /\ Len(spans[1].options) = 3
        /\ questions[1].answer = <<"b", ",", " ", "d">>

\* C10: the answer of a question tagged @tf is the lowercased text of the
\* option whose letter is the first letter of the raw answer.
C10_TfAnswerIsDesignatedOption ==
  \A n \in 1..Len(spans) :
    (HasBodyAndAnswer(spans[n]) /\ QuestionOf(n).type = "@tf") =>
      \A k \in 1..Len(spans[n].options) :
        (/\ UpperCount(spans[n].correct_answer_str) > 0
         /\ <<LowerChar(spans[n].options[k][1])>>
              = SubSeq(LettersJoined(spans[n].correct_answer_str, TRUE), 1, 1))
          => QuestionOf(n).answer = PrefixStripped(spans[n].options[k])

(***************************************************************************)
(* C9: the page span of a question                                          *)
(***************************************************************************)

\* the offset in the buffer of the text of page p (0-based): every earlier
\* page's text and its line break
RECURSIVE StartOfPage(_)
StartOfPage(p) ==
  IF p = 0 THEN 0 ELSE StartOfPage(p - 1) + Len(page_texts[p]) + 1

BufferLength == StartOfPage(Len(page_texts))

\* p is the greatest page index whose start offset is <= pos
IsGreatestPageAt(p, pos) ==
  /\ p \in 0..(Len(page_texts) - 1)
  /\ StartOfPage(p) <= pos
  /\ \A r \in 0..(Len(page_texts) - 1) : StartOfPage(r) <= pos => r <= p

C9_SpanEnd(n) ==
  IF n < Len(markers) THEN markers[n + 1].start ELSE BufferLength

\* C9: the start page of a span is the greatest page index whose start offset
\* is <= the start of its marker, its end page the greatest page index whose
\* start offset is <= the start of the next marker, or the buffer's length for
\* the last span; so start page <= end page, a span ends on the page where
\* the next one starts, and the last span ends on the last page.
C9_PageSpans ==
  \A n \in 1..Len(spans) :
    /\ spans[n].q_start = markers[n].start
    /\ spans[n].q_end = C9_SpanEnd(n)
    /\ IsGreatestPageAt(spans[n].q_start_page, spans[n].q_start)
    /\ IsGreatestPageAt(spans[n].q_end_page, spans[n].q_end)
    /\ spans[n].q_start_page <= spans[n].q_end_page
    /\ n > 1 => spans[n - 1].q_end_page = spans[n].q_start_page
    /\ n = Len(markers) => spans[n].q_end_page = Len(page_texts) - 1

\* two spans, the first over more than one page, the second starting with the
\* first character of a later page
C9_Witness ==
  /\ pc = "done"
  /\ Len(spans) = 2
  /\ spans[1].q_start_page < spans[1].q_end_page
  /\ spans[2].q_start_page > 0
  /\ spans[2].q_start = StartOfPage(spans[2].q_start_page)

(***************************************************************************)
(* C1, C2, C3: the exhibit assigner                                         *)
(***************************************************************************)

\* the 0-based indices of the occurrences on the pages of span loc
OnPagesOf(loc) ==
  {idx \in 0..(Len(all_images_list) - 1) :
     /\ loc.q_start_page <= all_images_list[idx + 1].page
     /\ all_images_list[idx + 1].page <= loc.q_end_page}

MaxOf(S) == CHOOSE x \in S : \A y \in S : y <= x

B64sAt(idxs) == [k \in 1..Len(idxs) |-> all_images_list[idxs[k] + 1].b64]

\* the data URIs of the ![Exhibit](...) references of text, in order
RECURSIVE RefsOf(_)
RefsOf(text) ==
  IF Len(text) <= Len(ExhibitOpen) THEN <<>>
  ELSE IF SubSeq(text, 1, Len(ExhibitOpen)) = ExhibitOpen
  THEN <<text[Len(ExhibitOpen) + 1]>> \o RefsOf(SubSeq(text, Len(ExhibitOpen) + 2, Len(text)))
  ELSE RefsOf(Tail(text))

\* C1: an image occurrence is taken by the walk of at most one question, once;
\* the references of a question's body are those its walk took, and a question
\* whose walk took none has a reference only through the fallback, its in-span
\* list being non-empty.
C1_ConsumedOnce ==
  /\ \A n, m \in 1..Len(spans) :
       \A j \in 1..Len(spans[n].consumed), k \in 1..Len(spans[m].consumed) :
         spans[n].consumed[j] = spans[m].consumed[k] => n = m /\ j = k
  /\ \A n \in 1..Len(spans) :
       HasBodyAndAnswer(spans[n]) =>
         \/ /\ spans[n].consumed # <<>>
            /\ RefsOf(QuestionOf(n).text) = B64sAt(spans[n].consumed)
         \/ /\ spans[n].consumed = <<>>
            /\ RefsOf(QuestionOf(n).text) # <<>>
            /\ spans[n].fallback
            /\ OnPagesOf(spans[n]) # {}
         \/ /\ spans[n].consumed = <<>>
            /\ RefsOf(QuestionOf(n).text) = <<>>

\* an occurrence taken by the walk of one question is referenced again by a
\* later question through the fallback
C1_Witness ==
  \E n, m \in 1..Len(spans) :
    /\ n < m
    /\ spans[n].consumed # <<>>
    /\ spans[m].fallback
    /\ spans[m].assigned_images
         = <<all_images_list[spans[n].consumed[Len(spans[n].consumed)] + 1].b64>>

\* C2: a kept question whose body mentions "exhibit" in any case and whose
\* pages hold exactly one image occurrence has exactly one reference, to that
\* image, whatever the high-water mark; a kept question whose body does not
\* mention it has none.
C2_OneImageOneReference ==
  \A n \in 1..Len(spans) :
    HasBodyAndAnswer(spans[n]) =>
      /\ (/\ Contains(Lower(spans[n].body), ExhibitWord)
          /\ Cardinality(OnPagesOf(spans[n])) = 1)
           => RefsOf(QuestionOf(n).text)
                = B64sAt(<<MaxOf(OnPagesOf(spans[n]))>>)
      /\ ~Contains(Lower(spans[n].body), ExhibitWord)
           => RefsOf(QuestionOf(n).text) = <<>>

\* the one image of the pages of an exhibit question was below the high-water
\* mark, and the question has its reference
C2_Witness ==
  \E n \in 1..Len(spans) :
    /\ HasBodyAndAnswer(spans[n])
    /\ Contains(Lower(spans[n].body), ExhibitWord)
    /\ Cardinality(OnPagesOf(spans[n])) = 1
    /\ spans[n].last_before >= MaxOf(OnPagesOf(spans[n]))
    /\ Len(RefsOf(QuestionOf(n).text)) = 1

\* the walk of span n took no image and its pages hold one
IsFallbackCase(n) ==
  /\ spans[n].exhibit
  /\ spans[n].consumed = <<>>
  /\ OnPagesOf(spans[n]) # {}

\* C3: an exhibit question whose walk takes no image and whose pages hold
\* images is assigned one image, the last of its pages, and leaves
\* last_image_idx_used as it found it; every later exhibit question over the
\* same pages is assigned that same image.
C3_FallbackFrame ==
  /\ \A n \in 1..Len(spans) :
       IsFallbackCase(n) =>
         /\ spans[n].assigned_images = B64sAt(<<MaxOf(OnPagesOf(spans[n]))>>)
         /\ RefsOf(QuestionOf(n).text) = spans[n].assigned_images
         /\ spans[n].last_after = spans[n].last_before
         /\ \A m \in (n + 1)..Len(spans) :
              (/\ spans[m].exhibit
               /\ spans[m].q_start_page = spans[n].q_start_page
               /\ spans[m].q_end_page = spans[n].q_end_page)
                => spans[m].assigned_images = spans[n].assigned_images
  /\ \A n \in 1..Len(spans) :
       /\ spans[n].last_before
            = (IF n = 1 THEN -1 ELSE spans[n - 1].last_after)
       /\ n = Len(spans) => last_image_idx_used = spans[n].last_after

\* two questions over the same pages, which hold two different images, both
\* took the fallback
C3_Witness ==
  \E n \in 1..Len(spans) :
    /\ n > 1
    /\ IsFallbackCase(n - 1)
    /\ IsFallbackCase(n)
    /\ spans[n].q_start_page = spans[n - 1].q_start_page
    /\ spans[n].q_end_page = spans[n - 1].q_end_page
    /\ \E i, j \in OnPagesOf(spans[n]) :
         all_images_list[i + 1].b64 # all_images_list[j + 1].b64

(***************************************************************************)
(* extract_all_image_occurrences                                            *)
(***************************************************************************)

JpegMagic == <<255, 216>>

PngMagic == <<137, 80, 78, 71>>

GifMagic == <<71, 73, 70>>

IsPrefix(p, data) == Len(p) <= Len(data) /\ SubSeq(data, 1, Len(p)) = p

\* lines 10-25: the data URI of an image, as its extension and its data (the
\* base64 text stands for the bytes it encodes); suffix is
\* name.split('.')[-1].lower()
get_image_base64_from_data(data, suffix) ==
  [ext  |-> IF IsPrefix(JpegMagic, data) THEN "jpg"
            ELSE IF IsPrefix(PngMagic, data) THEN "png"
            ELSE IF IsPrefix(GifMagic, data) THEN "gif"
            ELSE IF suffix \in {"png", "jpg", "jpeg", "gif"} THEN suffix
            ELSE "png",
   data |-> data]

\* page['/Resources']['/XObject'] of every page of the documents: two images,
\* the second with a stream that get_data cannot decode, and a form
XObjects ==
  [name \in {"/Im1", "/Im2", "/Fm1"} |->
     CASE name = "/Im1" ->
            [subtype |-> "/Image", decodes |-> TRUE, suffix |-> "/im1",
             data |-> PngMagic \o <<1>>]
       [] name = "/Im2" ->
            [subtype |-> "/Image", decodes |-> FALSE, suffix |-> "/im2",
             data |-> <<>>]
       [] OTHER ->
            [subtype |-> "/Form", decodes |-> TRUE, suffix |-> "/fm1",
             data |-> <<>>]]

\* lines 34-38: the names of the XObjects that are images
ImageNames == {name \in DOMAIN XObjects : XObjects[name].subtype = "/Image"}

\* lines 46-48: the operation paints an image of the page
PaintsImage(op) == op.operator = "Do" /\ op.name \in ImageNames

\* line 50: obj.get_data() raises
DataFails(op) == PaintsImage(op) /\ ~XObjects[op.name].decodes

ThisPage == pdf_pages[page_idx + 1]

Warning(i) == [warning |-> "Failed to parse Page", page |-> i + 1]

\* lines 41-42: the page has no content stream
SkipPage ==
  /\ pc = "page"
  /\ page_idx < Len(pdf_pages)
  /\ ThisPage.contents = "none"
  /\ page_idx' = page_idx + 1
  /\ UNCHANGED <<pc, pdf_pages, op_idx, all_occurrences, stderr>>
  /\ UNCHANGED <<parseVars, mainVars>>

\* lines 41-45: the content stream is parsed into its operations
OpenPage ==
  /\ pc = "page"
  /\ page_idx < Len(pdf_pages)
  /\ ThisPage.contents = "stream"
  /\ pc' = "ops"
  /\ op_idx' = 0
  /\ UNCHANGED <<pdf_pages, page_idx, all_occurrences, stderr>>
  /\ UNCHANGED <<parseVars, mainVars>>

\* lines 41-45, 54-55: reading or parsing the content stream raises
StreamFails ==
  /\ pc = "page"
  /\ page_idx < Len(pdf_pages)
  /\ ThisPage.contents = "broken"
  /\ stderr' = Append(stderr, Warning(page_idx))
  /\ page_idx' = page_idx + 1
  /\ UNCHANGED <<pc, pdf_pages, op_idx, all_occurrences>>
  /\ UNCHANGED <<parseVars, mainVars>>

\* lines 45-53: one operation of the page
RunOperation ==
  /\ pc = "ops"
  /\ op_idx < Len(ThisPage.ops)
  /\ ~DataFails(ThisPage.ops[op_idx + 1])
  /\ all_occurrences' =
       IF PaintsImage(ThisPage.ops[op_idx + 1])
       THEN Append(all_occurrences,
                   [page |-> page_idx,
                    b64  |-> get_image_base64_from_data(
                               XObjects[ThisPage.ops[op_idx + 1].name].data,
                               XObjects[ThisPage.ops[op_idx + 1].name].suffix)])
       ELSE all_occurrences
  /\ op_idx' = op_idx + 1
  /\ UNCHANGED <<pc, pdf_pages, page_idx, stderr>>
  /\ UNCHANGED <<parseVars, mainVars>>

\* OperationFails ending the function
OperationFails_Abort ==
  /\ pc = "ops"
  /\ op_idx < Len(ThisPage.ops)
  /\ DataFails(ThisPage.ops[op_idx + 1])
  /\ stderr' = Append(stderr, Warning(page_idx))
  /\ pc' = "done"
  /\ UNCHANGED <<pdf_pages, page_idx, op_idx, all_occurrences>>
  /\ UNCHANGED <<parseVars, mainVars>>

\* lines 50, 54-55: get_data raises, the except clause ends the page
OperationFails ==
  /\ pc = "ops"
  /\ op_idx < Len(ThisPage.ops)
  /\ DataFails(ThisPage.ops[op_idx + 1])
  /\ stderr' = Append(stderr, Warning(page_idx))
  /\ pc' = "page"
  /\ page_idx' = page_idx + 1
  /\ op_idx' = 0
  /\ UNCHANGED <<pdf_pages, all_occurrences>>
  /\ UNCHANGED <<parseVars, mainVars>>

\* line 45: the operations of the page are exhausted
ClosePage ==
  /\ pc = "ops"
  /\ op_idx = Len(ThisPage.ops)
  /\ pc' = "page"
  /\ page_idx' = page_idx + 1
  /\ op_idx' = 0
  /\ UNCHANGED <<pdf_pages, all_occurrences, stderr>>
  /\ UNCHANGED <<parseVars, mainVars>>

\* line 57
ReturnOccurrences ==
  /\ pc = "page"
  /\ page_idx = Len(pdf_pages)
  /\ pc' = "done"
  /\ UNCHANGED <<imageVars, stderr, parseVars, mainVars>>

NextImages ==
  \/ SkipPage
  \/ OpenPage
  \/ StreamFails
  \/ RunOperation
  \/ OperationFails
  \/ ClosePage
  \/ ReturnOccurrences

MaxPdfPages == 2

MaxOps == 3

OperationSet ==
  {[operator |-> "re", name |-> ""],
   [operator |-> "Do", name |-> "/Fm1"],
   [operator |-> "Do", name |-> "/Im1"],
   [operator |-> "Do", name |-> "/Im2"]}

\* the pages of up to m operations
PdfPageSet(m) ==
  {[contents |-> "none", ops |-> <<>>], [contents |-> "broken", ops |-> <<>>]}
    \cup {[contents |-> "stream", ops |-> ops] :
            ops \in SeqsUpTo(OperationSet, m)}

\* the documents of up to n pages and up to m operations in all
RECURSIVE PdfDocs(_, _)
PdfDocs(n, m) ==
  IF n = 0 THEN {<<>>}
  ELSE {<<>>} \cup
       UNION {{<<page>> \o rest : rest \in PdfDocs(n - 1, m - Len(page.ops))} :
                page \in PdfPageSet(m)}

\* lines 29-30
InitImages ==
  /\ pc = "page"
  /\ pdf_pages \in PdfDocs(MaxPdfPages, MaxOps)
  /\ page_idx = 0
  /\ op_idx = 0
  /\ all_occurrences = <<>>
  /\ stderr = <<>>
  /\ ParseIdle
  /\ MainIdle

SpecImages == InitImages /\ [][NextImages]_vars

(***************************************************************************)
(* C5: a page that fails                                                    *)
(***************************************************************************)

\* the index of the first operation of page whose image cannot be decoded,
\* Len(page.ops) + 1 without one
RECURSIVE FirstFailure(_, _)
FirstFailure(page, k) ==
  IF k > Len(page.ops) THEN k
  ELSE IF DataFails(page.ops[k]) THEN k
  ELSE FirstFailure(page, k + 1)

PageFails(page) ==
  \/ page.contents = "broken"
  \/ page.contents = "stream" /\ FirstFailure(page, 1) <= Len(page.ops)

\* the images painted by the operations of the page before number k
PaintedBefore(page, k) ==
  Cardinality({j \in 1..(k - 1) : PaintsImage(page.ops[j])})

OccurrencesOf(p) ==
  Cardinality({k \in 1..Len(all_occurrences) : all_occurrences[k].page = p})

WarnedPages == {stderr[k].page - 1 : k \in 1..Len(stderr)}

\* C5 as claimed: when extract_all_image_occurrences returns, every page was
\* gone through, every page whose content stream or one of whose images
\* raised has its warning, and no occurrence of the list is on such a page.
C5_FailingPageGivesNothing ==
  pc = "done" =>
    /\ page_idx = Len(pdf_pages)
    /\ \A p \in 0..(Len(pdf_pages) - 1) :
         PageFails(pdf_pages[p + 1]) =>
           p \in WarnedPages /\ OccurrencesOf(p) = 0

\* C5 as amended: when extract_all_image_occurrences returns, every page was
\* gone through, exactly the pages that raised have a warning, one each, a
\* page whose content stream cannot be parsed gives no occurrence, a page one
\* of whose images cannot be decoded gives the occurrences painted before
\* that image, and any other page gives all the images it paints.
C5_FailingPageKeepsEarlierImages ==
  pc = "done" =>
    /\ page_idx = Len(pdf_pages)
    /\ Len(stderr) = Cardinality(WarnedPages)
    /\ \A p \in 0..(Len(pdf_pages) - 1) :
         /\ p \in WarnedPages <=> PageFails(pdf_pages[p + 1])
         /\ OccurrencesOf(p) =
              PaintedBefore(pdf_pages[p + 1], FirstFailure(pdf_pages[p + 1], 1))
    /\ \A k \in 1..(Len(all_occurrences) - 1) :
         all_occurrences[k].page <= all_occurrences[k + 1].page

\* the first page painted an image and then failed on another, and the page
\* after it gave its image
C5_Witness ==
  /\ pc = "done"
  /\ Len(pdf_pages) = 2
  /\ PageFails(pdf_pages[1])
  /\ OccurrencesOf(0) = 1
  /\ OccurrencesOf(1) = 1
  /\ Len(stderr) = 1

(***************************************************************************)
(* main, on a directory                                                     *)
(***************************************************************************)

\* a file name is a stem (1 for "a", 2 for "b", ...) and an extension
Extensions == {"pdf", "PDF"}

\* the order of sorted() on the paths of one directory: by stem, then "PDF"
\* before "pdf"
SortKey(f) == 2 * f.stem + (IF f.ext = "PDF" THEN 0 ELSE 1)

\* sorted(files)
RECURSIVE Insert(_, _)
Insert(f, sorted) ==
  IF sorted = <<>> THEN <<f>>
  ELSE IF SortKey(f) < SortKey(Head(sorted)) THEN <<f>> \o sorted
  ELSE <<Head(sorted)>> \o Insert(f, Tail(sorted))

RECURSIVE Sorted(_)
Sorted(files) ==
  IF files = <<>> THEN <<>>
  ELSE Insert(files[Len(files)], Sorted(SubSeq(files, 1, Len(files) - 1)))

RECURSIVE ListOf(_)
ListOf(S) ==
  IF S = {} THEN <<>>
  ELSE LET f == CHOOSE x \in S : \A y \in S : SortKey(x) <= SortKey(y)
       IN  <<f>> \o ListOf(S \ {f})

\* list(input_path.glob("*." + ext)): Path.glob follows the platform, it tells
\* the case of letters apart on POSIX and does not on Windows
Glob(files, ext, sensitive) ==
  ListOf({f \in files : ~sensitive \/ f.ext = ext})

\* line 248
FindPdfFiles(files, sensitive) ==
  Glob(files, "pdf", sensitive) \o Glob(files, "PDF", sensitive)

\* line 257: pdf_file.with_suffix(".md"), a name by its stem
OutputFile(f) == f.stem

ThisFile == Sorted(pdf_files)[file_idx + 1]

\* lines 246-252: no PDF file in the directory
NoPdfFound ==
  /\ pc = "main"
  /\ FindPdfFiles(DOMAIN dir_files, case_sensitive) = <<>>
  /\ pdf_files' = <<>>
  /\ stderr' = Append(stderr, [error |-> "No PDF files found"])
  /\ exit_code' = 1
  /\ pc' = "exit"
  /\ UNCHANGED <<case_sensitive, dir_files, file_idx, md_files, processed>>
  /\ UNCHANGED <<parseVars, imageVars>>

\* lines 246-254
ListDirectory ==
  /\ pc = "main"
  /\ FindPdfFiles(DOMAIN dir_files, case_sensitive) # <<>>
  /\ pdf_files' = FindPdfFiles(DOMAIN dir_files, case_sensitive)
  /\ stderr' = Append(stderr, [found |-> Len(pdf_files')])
  /\ pc' = "files"
  /\ UNCHANGED <<case_sensitive, dir_files, file_idx, md_files, processed,
                 exit_code>>
  /\ UNCHANGED <<parseVars, imageVars>>

\* lines 256-260, 215-223: process_pdf returns
ProcessFile ==
  /\ pc = "files"
  /\ file_idx < Len(pdf_files)
  /\ dir_files[ThisFile] = "valid"
  /\ md_files' = md_files \cup {OutputFile(ThisFile)}
  /\ stderr' = Append(stderr, [created |-> OutputFile(ThisFile)])
  /\ processed' = Append(processed, ThisFile)
  /\ file_idx' = file_idx + 1
  /\ UNCHANGED <<pc, case_sensitive, dir_files, pdf_files, exit_code>>
  /\ UNCHANGED <<parseVars, imageVars>>

\* lines 256-259, 261-262, 217: parse_vce_pdf raises
ProcessFileFails ==
  /\ pc = "files"
  /\ file_idx < Len(pdf_files)
  /\ dir_files[ThisFile] = "corrupt"
  /\ stderr' = Append(stderr, [failed |-> ThisFile])
  /\ processed' = Append(processed, ThisFile)
  /\ file_idx' = file_idx + 1
  /\ UNCHANGED <<pc, case_sensitive, dir_files, pdf_files, md_files, exit_code>>
  /\ UNCHANGED <<parseVars, imageVars>>

\* lines 256-259, 261-262, 221-222: open() has made the file and f.write raises
\* (text that utf-8 cannot encode, a full disk)
WriteFails ==
  /\ pc = "files"
  /\ file_idx < Len(pdf_files)
  /\ dir_files[ThisFile] = "unwritable"
  /\ md_files' = md_files \cup {OutputFile(ThisFile)}
  /\ stderr' = Append(stderr, [failed |-> ThisFile])
  /\ processed' = Append(processed, ThisFile)
  /\ file_idx' = file_idx + 1
  /\ UNCHANGED <<pc, case_sensitive, dir_files, pdf_files, exit_code>>
  /\ UNCHANGED <<parseVars, imageVars>>

\* line 264, and the return of main
Finish ==
  /\ pc = "files"
  /\ file_idx = Len(pdf_files)
  /\ stderr' = Append(stderr, [done |-> Len(pdf_files)])
  /\ exit_code' = 0
  /\ pc' = "exit"
  /\ UNCHANGED <<case_sensitive, dir_files, pdf_files, file_idx, md_files,
                 processed>>
  /\ UNCHANGED <<parseVars, imageVars>>

NextBatch ==
  \/ NoPdfFound
  \/ ListDirectory
  \/ ProcessFile
  \/ ProcessFileFails
  \/ WriteFails
  \/ Finish

MaxStems == 2

FileNames == [stem : 1..MaxStems, ext : Extensions]

FileKinds == {"valid", "corrupt", "unwritable"}

\* the directories: any files of FileNames, each of any kind; where the
\* platform does not tell the case of letters apart no two names of a
\* directory differ by case only
Directories(sensitive) ==
  UNION {[names -> FileKinds] :
           names \in {ns \in SUBSET FileNames :
                        sensitive \/ \A f, g \in ns : f.stem = g.stem => f = g}}

\* main is entered with a directory for input_path
InitBatch ==
  /\ pc = "main"
  /\ case_sensitive \in BOOLEAN
  /\ dir_files \in Directories(case_sensitive)
  /\ pdf_files = <<>>
  /\ file_idx = 0
  /\ md_files = {}
  /\ processed = <<>>
  /\ exit_code = -1
  /\ stderr = <<>>
  /\ ParseIdle
  /\ ImageIdle

SpecBatch == InitBatch /\ [][NextBatch]_vars

(***************************************************************************)
(* C4: the batch                                                            *)
(***************************************************************************)

TimesIn(x, s) == Cardinality({k \in 1..Len(s) : s[k] = x})

FailuresOn(f) ==
  Cardinality({k \in 1..Len(stderr) :
                 "failed" \in DOMAIN stderr[k] /\ stderr[k].failed = f})

\* C4: when main ends on a directory that holds PDF files, every one of them
\* has been handed to process_pdf exactly once, in sorted order; every file
\* that failed has one failure line with its name on stderr and the files
\* after it were processed; the .md files that exist are those of the files
\* that succeeded; and the exit status is 0.
C4_BatchProcessesEachOnce ==
  (pc = "exit" /\ DOMAIN dir_files # {}) =>
    /\ \A f \in DOMAIN dir_files : TimesIn(f, processed) = 1
    /\ \A k \in 1..(Len(processed) - 1) :
         SortKey(processed[k]) < SortKey(processed[k + 1])
    /\ \A f \in DOMAIN dir_files :
         FailuresOn(f) = (IF dir_files[f] = "valid" THEN 0 ELSE 1)
    /\ md_files = {OutputFile(f) : f \in {g \in DOMAIN dir_files :
                                             dir_files[g] = "valid"}}
    /\ exit_code = 0

====
